---- MODULE Spec2Model ----
\* HubSpot OAuth2 connector (backend/integrations/hubspot.py): the authorization
\* initiator, the callback handler, the credential accessor and the record
\* fetcher, modelled at the granularity of their await points.
EXTENDS Integers, Sequences, FiniteSets, TLC

\* ---------------------------------------------------------------- values
\* A Python string is a sequence of text chunks; ":" is always a chunk of its
\* own, so that splitting on it is computed, not assumed.
\* A Python value is a tagged record: None, a str or an int.
PyNone == [t |-> "None", s |-> <<>>, n |-> 0]

PyStr(s) == [t |-> "str", s |-> s, n |-> 0]

PyInt(n) == [t |-> "int", s |-> <<>>, n |-> n]

\* Python truthiness, as used by `if error`, `not code`, `not stored_state`.
Truthy(v) ==
  CASE v.t = "None" -> FALSE
    [] v.t = "str" -> v.s # <<>>
    [] v.t = "int" -> v.n # 0

\* dict.get(key): None when the key is missing.
DictGet(d, k) == IF k \in DOMAIN d THEN d[k] ELSE PyNone

\* str.split(sep): the parts between the separators, at least one part.
RECURSIVE Split(_, _)
Split(s, sep) ==
  IF s = <<>> THEN << <<>> >>
  ELSE LET rest == Split(Tail(s), sep)
       IN IF Head(s) = sep
          THEN << <<>> >> \o rest
          ELSE << <<Head(s)>> \o Head(rest) >> \o Tail(rest)

\* ---------------------------------------------------------------- JSON
\* json.dumps of a flat dict is a sequence of (key, lexeme) members; a lexeme
\* is a string literal, a decimal number literal or null.
RECURSIVE Digits(_)
Digits(n) == IF n < 10 THEN <<n>> ELSE Append(Digits(n \div 10), n % 10)

RECURSIVE FromDigits(_)
FromDigits(ds) ==
  IF ds = <<>> THEN 0
  ELSE FromDigits(SubSeq(ds, 1, Len(ds) - 1)) * 10 + ds[Len(ds)]

JsonLexeme(v) ==
  CASE v.t = "None" -> [kind |-> "null", text |-> <<>>, digits |-> <<>>]
    [] v.t = "str" -> [kind |-> "string", text |-> v.s, digits |-> <<>>]
    [] v.t = "int" -> [kind |-> "number", text |-> <<>>, digits |-> Digits(v.n)]

JsonValue(lx) ==
  CASE lx.kind = "null" -> PyNone
    [] lx.kind = "string" -> PyStr(lx.text)
    [] lx.kind = "number" -> PyInt(FromDigits(lx.digits))

\* The order in which the callback inserts the keys of the credentials dict.
CredentialKeys == <<"access_token", "refresh_token", "expires_in", "token_type">>

RECURSIVE DumpMembers(_, _)
DumpMembers(d, keys) ==
  IF keys = <<>> THEN <<>>
  ELSE IF Head(keys) \in DOMAIN d
       THEN << <<Head(keys), JsonLexeme(d[Head(keys)])>> >> \o DumpMembers(d, Tail(keys))
       ELSE DumpMembers(d, Tail(keys))

JsonDumps(d) == DumpMembers(d, CredentialKeys)

JsonLoads(text) ==
  [k \in {text[i][1] : i \in DOMAIN text} |->
     JsonValue(text[CHOOSE i \in DOMAIN text : text[i][1] = k][2])]

\* ---------------------------------------------------------------- key-value store
\* redis_client: key -> [val, exp]; exp is the time at which the key stops being
\* retrievable, NoExpiry for a key written by SET.
NoExpiry == -1

StateTtl == 3600

Live(entry, t) == entry.exp = NoExpiry \/ entry.exp > t

\* redis_client.get: [found, val]; a key past its expiry is not found.
RedisGet(store, t, key) ==
  IF key \in DOMAIN store /\ Live(store[key], t)
  THEN [found |-> TRUE, val |-> store[key].val]
  ELSE [found |-> FALSE, val |-> <<>>]

RedisPut(store, key, entry) ==
  [k \in DOMAIN store \cup {key} |-> IF k = key THEN entry ELSE store[k]]

\* redis_client.setex(key, ttl, value)
RedisSetEx(store, t, key, ttl, val) ==
  RedisPut(store, key, [val |-> val, exp |-> t + ttl])

\* redis_client.set(key, value)
RedisSet(store, key, val) ==
  RedisPut(store, key, [val |-> val, exp |-> NoExpiry])

\* The store drops the keys whose expiry has been reached.
RedisExpire(store, t) ==
  [k \in {j \in DOMAIN store : Live(store[j], t)} |-> store[k]]

EmptyStore == [k \in {} |-> [val |-> <<>>, exp |-> NoExpiry]]

\* f"{user_id}:{org_id}"
MakeState(user_id, org_id) == user_id \o <<":">> \o org_id

\* f"hubspot_state:{state}"
StateKey(state) == <<"hubspot_state", ":">> \o state

\* f"hubspot_credentials:{user_id}:{org_id}"
CredentialsKey(user_id, org_id) ==
  <<"hubspot_credentials", ":">> \o user_id \o <<":">> \o org_id

\* ---------------------------------------------------------------- inputs
\* The (user_id, org_id) pairs the callers pass in; one org_id contains a colon.
AuthPairs ==
  { << <<"u1">>, <<"o1">> >>, << <<"u2">>, <<"o1">> >>, << <<"u1">>, <<"o1", ":", "x">> >> }

\* The times at which something happens (seconds).
TimePoints == {0, StateTtl - 1, StateTtl + 1}

\* HUBSPOT_CLIENT_ID / HUBSPOT_CLIENT_SECRET as read from the environment.
Configs ==
  { [client_id |-> PyStr(<<"cid">>), client_secret |-> PyStr(<<"secret">>)],
    [client_id |-> PyNone, client_secret |-> PyStr(<<"secret">>)],
    [client_id |-> PyStr(<<"cid">>), client_secret |-> PyNone] }

\* Query parameters of a callback request: each of code, state, error may be
\* missing (PyNone is what params.get returns then).
CallbackCodes == {PyNone, PyStr(<<"code1">>)}

CallbackStates ==
  {PyNone} \cup {PyStr(MakeState(p[1], p[2])) : p \in AuthPairs}

CallbackErrors == {PyNone, PyStr(<<"access_denied">>)}

\* Bodies of the token endpoint's 200 responses: with and without a refresh
\* token.
TokenBodies ==
  { [access_token |-> PyStr(<<"at1">>), refresh_token |-> PyStr(<<"rt1">>),
     expires_in |-> PyInt(1800), token_type |-> PyStr(<<"bearer">>)],
    [access_token |-> PyStr(<<"at2">>),
     expires_in |-> PyInt(21600), token_type |-> PyStr(<<"bearer">>)] }

ErrorBody == [status |-> PyStr(<<"error">>), message |-> PyStr(<<"failed">>)]

TokenResponses ==
  {[status |-> 200, json |-> b] : b \in TokenBodies}
    \cup {[status |-> 400, json |-> ErrorBody]}

\* ---------------------------------------------------------------- bounds
\* Callback requests that may be in flight at once.
MaxCallbacks == 1

CallbackIds == 1 .. MaxCallbacks

\* Callback requests in flight at once where callbacks race and are cancelled.
MaxConcurrent == 2

ConcurrentIds == 1 .. MaxConcurrent

\* ---------------------------------------------------------------- state
VARIABLES
  now,         \* wall clock, seconds
  config,      \* HUBSPOT_CLIENT_ID and HUBSPOT_CLIENT_SECRET
  redis,       \* the key-value store
  authResult,  \* what the last authorize_hubspot call did and returned
  cb,          \* the oauth2callback_hubspot invocations, by request slot
  exchanged,   \* per state, the last callback that stored: its token response
               \* and what its marker lookup found
  fetch,       \* the get_items_hubspot invocation
  refreshed    \* the credential strings a fetch has obtained new tokens for

oauthVars == <<now, config, redis, authResult, cb, exchanged>>

fetchVars == <<fetch, refreshed>>

vars == <<now, config, redis, authResult, cb, exchanged, fetch, refreshed>>

NoDict == [x \in {} |-> PyNone]

IdleCallback ==
  [pc |-> "idle", code |-> PyNone, state |-> PyNone, error |-> PyNone,
   stored_state |-> FALSE, token_data |-> NoDict, user_id |-> <<>>, org_id |-> <<>>,
   credentials |-> NoDict, response_status |-> 0, status |-> 0, detail |-> "",
   calls |-> <<>>]

NoAuthResult ==
  [status |-> 0, detail |-> "", user_id |-> <<>>, org_id |-> <<>>, at |-> 0,
   base |-> "", query |-> <<>>]

OAuthInit ==
  /\ now = 0
  /\ config \in Configs
  /\ redis = EmptyStore
  /\ authResult = NoAuthResult
  /\ cb = [i \in CallbackIds |-> IdleCallback]
  /\ exchanged = [k \in {} |-> [token_data |-> NoDict, stored_state |-> FALSE]]

\* ---------------------------------------------------------------- authorize_hubspot
\* urllib.parse.quote_plus on one value: ":" and " " are escaped.
QuotePlus(s) ==
  [i \in DOMAIN s |-> CASE s[i] = ":" -> "%3A" [] s[i] = " " -> "+" [] OTHER -> s[i]]

UnquotePlus(s) ==
  [i \in DOMAIN s |-> CASE s[i] = "%3A" -> ":" [] s[i] = "+" -> " " [] OTHER -> s[i]]

\* urlencode(params): the (name, quoted value) pairs in dict order.
UrlEncode(params) == [i \in DOMAIN params |-> <<params[i][1], QuotePlus(params[i][2])>>]

\* The decoded value of a query parameter of an encoded query string.
QueryParam(query, name) ==
  UnquotePlus(query[CHOOSE i \in DOMAIN query : query[i][1] = name][2])

HubspotScopes == <<"crm.objects.companies.read", " ", "crm.objects.contacts.read", " ",
                   "crm.objects.contacts.write", " ", "crm.schemas.contacts.read", " ",
                   "crm.schemas.contacts.write", " ", "oauth">>

HubspotRedirectUri == <<"http", ":", "//localhost", ":", "8000/integrations/hubspot/oauth2callback">>

\* A check that looks at the client id alone.
ConfigMissingClientIdOnly(c) == ~Truthy(c.client_id)

\* Line 39: `not HUBSPOT_CLIENT_ID or not HUBSPOT_CLIENT_SECRET`.
ConfigMissing(c) == ~Truthy(c.client_id) \/ ~Truthy(c.client_secret)

\* An initiator that writes the marker with SET, so that it never expires.
AuthorizeStoreNoExpiry(store, t, state) == RedisSet(store, StateKey(state), <<"1">>)

\* The store after authorize_hubspot's setex.
AuthorizeStore(store, t, state) ==
  RedisSetEx(store, t, StateKey(state), StateTtl, <<"1">>)

\* What authorize_hubspot answers at time t: the error, or the URL (lines 46-54).
AuthorizeResult(c, user_id, org_id, t) ==
  IF ConfigMissing(c)
  THEN [NoAuthResult EXCEPT !.status = 500, !.detail = "HubSpot client configuration is missing",
                            !.user_id = user_id, !.org_id = org_id, !.at = t]
  ELSE [status |-> 200, detail |-> "", user_id |-> user_id, org_id |-> org_id, at |-> t,
        base |-> "https://app.hubspot.com/oauth/authorize",
        query |-> UrlEncode(<< <<"client_id", c.client_id.s>>,
                               <<"redirect_uri", HubspotRedirectUri>>,
                               <<"scope", HubspotScopes>>,
                               <<"state", MakeState(user_id, org_id)>> >>)]

authorize_hubspot(user_id, org_id) ==
  /\ redis' = IF ConfigMissing(config) THEN redis
              ELSE AuthorizeStore(redis, now, MakeState(user_id, org_id))
  /\ authResult' = AuthorizeResult(config, user_id, org_id, now)
  /\ UNCHANGED <<now, config, cb, exchanged, fetchVars>>

\* ---------------------------------------------------------------- oauth2callback_hubspot
Fail(c, status, detail) == [c EXCEPT !.pc = "failed", !.status = status, !.detail = detail]

\* Lines 61-70: read the query parameters, reject a provider error and a
\* missing code or state.
\* A handler that goes on without looking at the error parameter.
CheckParamsIgnoringError(c) ==
  IF ~Truthy(c.code) \/ ~Truthy(c.state)
  THEN Fail(c, 400, "Missing required parameters")
  ELSE [c EXCEPT !.pc = "verify_state"]

\* Lines 66-70: the two checks, the provider's error first.
CheckParams(c) ==
  IF Truthy(c.error) THEN Fail(c, 400, "HubSpot authorization error")
  ELSE IF ~Truthy(c.code) \/ ~Truthy(c.state)
       THEN Fail(c, 400, "Missing required parameters")
       ELSE [c EXCEPT !.pc = "verify_state"]

CallbackStart(i, code, state, error) ==
  /\ cb[i].pc = "idle"
  /\ cb' = [cb EXCEPT ![i] =
              CheckParams([IdleCallback EXCEPT !.code = code, !.state = state,
                                               !.error = error])]
  /\ UNCHANGED <<now, config, redis, authResult, exchanged, fetchVars>>

\* A handler that takes any lookup result for a marker.
StateVerifiedAlways(got) == TRUE

\* `not stored_state` is false: the marker was found and is not empty.
StateVerified(got) == got.found /\ got.val # <<>>

\* Lines 72-75: look the marker up.
CallbackVerifyState(i) ==
  /\ cb[i].pc = "verify_state"
  /\ LET got == RedisGet(redis, now, StateKey(cb[i].state.s))
         c == [cb[i] EXCEPT !.calls = Append(@, "redis_get"),
                            !.stored_state = got.found]
     IN cb' = [cb EXCEPT ![i] =
                 IF StateVerified(got)
                 THEN [c EXCEPT !.pc = "exchange_code"]
                 ELSE Fail(c, 400, "Invalid state parameter")]
  /\ UNCHANGED <<now, config, redis, authResult, exchanged, fetchVars>>

\* user_id, org_id = state.split(":") needs exactly two parts.
SplitUnpacks(state) == Len(Split(state, ":")) = 2

\* A handler that reads the refresh token under a key the response never has.
MakeCredentialsNoRefresh(token_data) ==
  [k \in {"access_token", "refresh_token", "expires_in", "token_type"} |->
     IF k = "refresh_token" THEN PyNone ELSE token_data[k]]

\* The credentials dict built from token_data (lines 96-101).
MakeCredentials(token_data) ==
  [k \in {"access_token", "refresh_token", "expires_in", "token_type"} |->
     IF k = "refresh_token" THEN DictGet(token_data, k) ELSE token_data[k]]

\* A handler that takes only a server error for a failed exchange.
ExchangeFailedOnServerError(status) == status >= 500

\* Line 89: `response.status != 200`.
ExchangeFailed(status) == status # 200

\* Lines 77-101: the token endpoint answers `resp`.
CallbackExchange(i, resp) ==
  /\ cb[i].pc = "exchange_code"
  /\ LET c == [cb[i] EXCEPT !.calls = Append(@, "token_post"),
                            !.response_status = resp.status]
         parts == Split(c.state.s, ":")
     IN cb' = [cb EXCEPT ![i] =
                 IF ExchangeFailed(resp.status) THEN Fail(c, 400, "Failed to get access token")
                 ELSE IF ~SplitUnpacks(c.state.s)
                      THEN Fail([c EXCEPT !.token_data = resp.json], 500, "ValueError")
                 ELSE IF ~({"access_token", "expires_in", "token_type"} \subseteq DOMAIN resp.json)
                      THEN Fail([c EXCEPT !.token_data = resp.json,
                                          !.user_id = parts[1], !.org_id = parts[2]],
                                500, "KeyError")
                 ELSE [c EXCEPT !.pc = "store", !.token_data = resp.json,
                                !.user_id = parts[1], !.org_id = parts[2],
                                !.credentials = MakeCredentials(resp.json)]]
  /\ UNCHANGED <<now, config, redis, authResult, exchanged, fetchVars>>

\* A handler that first reads the stored bundle and keeps its refresh token
\* when the new response has none.
StoreCredentialsMerging(store, c) ==
  LET key == CredentialsKey(c.user_id, c.org_id)
      old == IF key \in DOMAIN store THEN JsonLoads(store[key].val) ELSE c.credentials
      merged == [k \in DOMAIN c.credentials |->
                   IF k = "refresh_token" /\ c.credentials[k] = PyNone
                   THEN old[k] ELSE c.credentials[k]]
  IN RedisSet(store, key, JsonDumps(merged))

\* A handler that also marks the state as used, a second write.
StoreCredentialsMarkingState(store, c) ==
  RedisSet(RedisSet(store, CredentialsKey(c.user_id, c.org_id), JsonDumps(c.credentials)),
           StateKey(c.state.s), <<"used">>)

\* A handler that uses the marker up: it deletes it when it stores the bundle.
StoreCredentialsConsumingState(store, c) ==
  LET written == RedisSet(store, CredentialsKey(c.user_id, c.org_id),
                          JsonDumps(c.credentials))
  IN [k \in DOMAIN written \ {StateKey(c.state.s)} |-> written[k]]

\* The store after the handler's one write (lines 103-106): SET without expiry.
StoreCredentials(store, c) ==
  RedisSet(store, CredentialsKey(c.user_id, c.org_id), JsonDumps(c.credentials))

\* What the bookkeeping of exchanges holds once callback c has written.
Recorded(ex, c) ==
  [s \in DOMAIN ex \cup {c.state.s} |->
     IF s = c.state.s
     THEN [token_data |-> c.token_data, stored_state |-> c.stored_state]
     ELSE ex[s]]

\* Lines 103-108: write the bundle and answer.
CallbackStore(i) ==
  /\ cb[i].pc = "store"
  /\ redis' = StoreCredentials(redis, cb[i])
  /\ cb' = [cb EXCEPT ![i].pc = "done", ![i].status = 200,
                      ![i].detail = "Successfully authenticated with HubSpot",
                      ![i].calls = Append(@, "redis_set")]
  /\ exchanged' = Recorded(exchanged, cb[i])
  /\ UNCHANGED <<now, config, authResult, fetchVars>>

\* The response has gone out; the slot serves the next request.
CallbackReturn(i) ==
  /\ cb[i].pc \in {"done", "failed"}
  /\ cb' = [cb EXCEPT ![i] = IdleCallback]
  /\ UNCHANGED <<now, config, redis, authResult, exchanged, fetchVars>>

\* ---------------------------------------------------------------- cancellation
\* The request is cancelled while the callback waits at one of its awaits
\* (lines 73, 80-92, 103): CancelledError ends the coroutine there. At the
\* await of the write the SET may or may not have reached the store (applied).
CallbackCancel(i, applied) ==
  /\ cb[i].pc \in {"verify_state", "exchange_code", "store"}
  /\ IF cb[i].pc = "store" /\ applied
     THEN /\ redis' = StoreCredentials(redis, cb[i])
          /\ exchanged' = Recorded(exchanged, cb[i])
          /\ cb' = [cb EXCEPT ![i].pc = "cancelled",
                              ![i].calls = Append(@, "redis_set")]
     ELSE /\ cb' = [cb EXCEPT ![i].pc = "cancelled"]
          /\ UNCHANGED <<redis, exchanged>>
  /\ UNCHANGED <<now, config, authResult, fetchVars>>

\* The connection of a cancelled request is gone; the slot serves the next.
CallbackDrop(i) ==
  /\ cb[i].pc = "cancelled"
  /\ cb' = [cb EXCEPT ![i] = IdleCallback]
  /\ UNCHANGED <<now, config, redis, authResult, exchanged, fetchVars>>

\* authorize_hubspot cancelled at its one await, the setex of line 43, which
\* may or may not have reached the store (applied); nothing is answered.
AuthorizeCancel(user_id, org_id, applied) ==
  /\ ~ConfigMissing(config)
  /\ redis' = IF applied THEN AuthorizeStore(redis, now, MakeState(user_id, org_id))
              ELSE redis
  /\ authResult' = [NoAuthResult EXCEPT !.detail = "cancelled", !.user_id = user_id,
                                        !.org_id = org_id, !.at = now]
  /\ UNCHANGED <<now, config, cb, exchanged, fetchVars>>

\* ---------------------------------------------------------------- get_hubspot_credentials
\* A lookup with no effect on the state: [found, value], value the decoded bundle.
get_hubspot_credentials(store, t, user_id, org_id) ==
  LET got == RedisGet(store, t, CredentialsKey(user_id, org_id))
  IN IF ~(got.found /\ got.val # <<>>)
     THEN [found |-> FALSE, value |-> NoDict]
     ELSE [found |-> TRUE, value |-> JsonLoads(got.val)]

\* ---------------------------------------------------------------- time
Tick(t) ==
  /\ t > now
  /\ now' = t
  /\ redis' = RedisExpire(redis, t)
  /\ UNCHANGED <<config, authResult, cb, exchanged, fetchVars>>

\* ---------------------------------------------------------------- specification
OAuthNext ==
  \/ \E p \in AuthPairs : authorize_hubspot(p[1], p[2])
  \/ \E i \in CallbackIds, code \in CallbackCodes, state \in CallbackStates,
        error \in CallbackErrors : CallbackStart(i, code, state, error)
  \/ \E i \in CallbackIds : CallbackVerifyState(i)
  \/ \E i \in CallbackIds, resp \in TokenResponses : CallbackExchange(i, resp)
  \/ \E i \in CallbackIds : CallbackStore(i)
  \/ \E i \in CallbackIds : CallbackReturn(i)
  \/ \E t \in TimePoints : Tick(t)

\* ---------------------------------------------------------------- upstream data
\* Longest result list the data API returns for one collection.
MaxResults == 2

ContactsEndpoint == "crm/v3/objects/contacts"

CompaniesEndpoint == "crm/v3/objects/companies"

\* An ISO 8601 timestamp, as its six digit groups (date, time; UTC).
Iso(y, mo, d, h, mi, sec) == <<y, mo, d, h, mi, sec>>

ContactRecords ==
  { [id |-> <<"1">>,
     properties |-> [firstname |-> PyStr(<<"Ada">>), lastname |-> PyStr(<<"Lovelace">>)],
     createdAt |-> Iso(<<2,0,2,4>>, <<0,1>>, <<0,1>>, <<0,0>>, <<0,0>>, <<0,0>>),
     updatedAt |-> Iso(<<2,0,2,4>>, <<0,1>>, <<0,2>>, <<0,0>>, <<0,0>>, <<0,0>>)],
    [id |-> <<"2">>,
     properties |-> [lastname |-> PyStr(<<"Hopper">>)],
     createdAt |-> Iso(<<2,0,2,3>>, <<1,2>>, <<3,1>>, <<2,3>>, <<5,9>>, <<5,9>>),
     updatedAt |-> Iso(<<2,0,2,4>>, <<0,1>>, <<0,2>>, <<0,0>>, <<0,0>>, <<0,0>>)] }

CompanyRecords ==
  { [id |-> <<"7">>,
     properties |-> [name |-> PyStr(<<"Acme">>)],
     createdAt |-> Iso(<<2,0,2,4>>, <<0,1>>, <<0,1>>, <<0,0>>, <<0,0>>, <<0,0>>),
     updatedAt |-> Iso(<<2,0,2,4>>, <<0,1>>, <<0,2>>, <<0,0>>, <<0,0>>, <<0,0>>)],
    [id |-> <<"8">>,
     properties |-> [domain |-> PyStr(<<"example.com">>)],
     createdAt |-> Iso(<<2,0,2,4>>, <<0,1>>, <<0,1>>, <<0,0>>, <<0,0>>, <<0,0>>),
     updatedAt |-> Iso(<<2,0,2,4>>, <<0,1>>, <<0,2>>, <<0,0>>, <<0,0>>, <<0,0>>)],
    [id |-> <<"9">>,
     properties |-> [name |-> PyNone],
     createdAt |-> Iso(<<2,0,2,4>>, <<0,1>>, <<0,1>>, <<0,0>>, <<0,0>>, <<0,0>>),
     updatedAt |-> Iso(<<2,0,2,4>>, <<0,1>>, <<0,2>>, <<0,0>>, <<0,0>>, <<0,0>>)] }

RecordsOf(endpoint) ==
  IF endpoint = ContactsEndpoint THEN ContactRecords ELSE CompanyRecords

ResultSeqs(records) == UNION {[1 .. n -> records] : n \in 0 .. MaxResults}

\* What the data API may answer to a GET of `endpoint`: a page of results, an
\* error with a JSON body, or an error whose body is not JSON.
DataResponses(endpoint) ==
  {[status |-> 200, decodes |-> TRUE, body |-> [results |-> rs]] :
     rs \in ResultSeqs(RecordsOf(endpoint))}
    \cup {[status |-> 401, decodes |-> TRUE, body |-> ErrorBody],
          [status |-> 500, decodes |-> TRUE, body |-> ErrorBody],
          [status |-> 502, decodes |-> FALSE, body |-> NoDict]}

\* The credential strings callers pass to get_items_hubspot: with a refresh
\* token, with a null one, and without the key.
FetchBundles ==
  { [access_token |-> PyStr(<<"at1">>), refresh_token |-> PyStr(<<"rt1">>),
     expires_in |-> PyInt(1800), token_type |-> PyStr(<<"bearer">>)],
    [access_token |-> PyStr(<<"at2">>), refresh_token |-> PyNone,
     expires_in |-> PyInt(21600), token_type |-> PyStr(<<"bearer">>)],
    [access_token |-> PyStr(<<"at4">>),
     expires_in |-> PyInt(1800), token_type |-> PyStr(<<"bearer">>)] }

\* ---------------------------------------------------------------- get_items_hubspot
\* dict.get(key, default): the default only when the key is missing.
DictGetDefault(d, k, default) == IF k \in DOMAIN d THEN d[k] ELSE default

\* How an f-string renders a value.
Format(v) == IF v.t = "None" THEN <<"None">> ELSE v.s

\* str.strip(): leading and trailing blanks removed.
RECURSIVE LStrip(_)
LStrip(s) == IF s # <<>> /\ Head(s) = " " THEN LStrip(Tail(s)) ELSE s

RECURSIVE RStrip(_)
RStrip(s) ==
  IF s # <<>> /\ s[Len(s)] = " " THEN RStrip(SubSeq(s, 1, Len(s) - 1)) ELSE s

Strip(s) == LStrip(RStrip(s))

\* dateutil.parser.parse on an ISO timestamp.
parse_datetime(date_str) ==
  [year |-> FromDigits(date_str[1]), month |-> FromDigits(date_str[2]),
   day |-> FromDigits(date_str[3]), hour |-> FromDigits(date_str[4]),
   minute |-> FromDigits(date_str[5]), second |-> FromDigits(date_str[6])]

\* Lines 177-191.
ContactItem(contact) ==
  [id |-> contact.id, type |-> "contact",
   name |-> PyStr(Strip(Format(DictGetDefault(contact.properties, "firstname", PyStr(<<>>)))
                        \o <<" ">>
                        \o Format(DictGetDefault(contact.properties, "lastname", PyStr(<<>>))))),
   creation_time |-> parse_datetime(contact.createdAt),
   last_modified_time |-> parse_datetime(contact.updatedAt),
   url |-> <<"https", ":", "//app.hubspot.com/contacts/">> \o contact.id]

\* Lines 200-214.
CompanyItem(company) ==
  [id |-> company.id, type |-> "company",
   name |-> DictGetDefault(company.properties, "name", PyStr(<<"Unnamed Company">>)),
   creation_time |-> parse_datetime(company.createdAt),
   last_modified_time |-> parse_datetime(company.updatedAt),
   url |-> <<"https", ":", "//app.hubspot.com/companies/">> \o company.id]

ItemOf(endpoint, record) ==
  IF endpoint = ContactsEndpoint THEN ContactItem(record) ELSE CompanyItem(record)

\* response.get("results", [])
ResultsOf(body) == IF "results" \in DOMAIN body THEN body.results ELSE <<>>

\* A loop that puts each new item in front.
RECURSIVE PrependItems(_, _, _)
PrependItems(items, endpoint, results) ==
  IF results = <<>> THEN items
  ELSE PrependItems(<<ItemOf(endpoint, Head(results))>> \o items, endpoint, Tail(results))

\* The for loop over one collection: items.append per record, in order.
RECURSIVE AppendItems(_, _, _)
AppendItems(items, endpoint, results) ==
  IF results = <<>> THEN items
  ELSE AppendItems(Append(items, ItemOf(endpoint, Head(results))), endpoint, Tail(results))

IdleFetch ==
  [pc |-> "idle", credentials |-> NoDict, access_token |-> <<>>, endpoint |-> "",
   new_token |-> <<>>, items |-> <<>>, contacts_response |-> NoDict,
   companies_response |-> NoDict, status |-> 0, detail |-> "", calls |-> <<>>]

FetchFail(f, status, detail) ==
  [f EXCEPT !.pc = "failed", !.status = status, !.detail = detail]

\* One upstream call, as the invocation saw it.
Call(op, endpoint, token, status, decodes, body) ==
  [op |-> op, endpoint |-> endpoint, token |-> token, status |-> status,
   decodes |-> decodes, body |-> body]

\* Lines 142-147: decode the bundle.
FetchStart(credentials_str) ==
  /\ fetch.pc = "idle"
  /\ LET credentials == JsonLoads(credentials_str)
     IN fetch' = [IdleFetch EXCEPT !.pc = "get", !.credentials = credentials,
                                   !.access_token = credentials["access_token"].s,
                                   !.endpoint = ContactsEndpoint]
  /\ UNCHANGED <<oauthVars, refreshed>>

\* The rest of get_items_hubspot once make_request(endpoint) has returned
\* `body`: the loop over its results, then the next collection or the return.
AfterRequest(f, body) ==
  LET items == AppendItems(f.items, f.endpoint, ResultsOf(body))
  IN IF f.endpoint = ContactsEndpoint
     THEN [f EXCEPT !.items = items, !.contacts_response = body,
                    !.pc = "get", !.endpoint = CompaniesEndpoint]
     ELSE [f EXCEPT !.items = items, !.companies_response = body,
                    !.pc = "done", !.status = 200]

\* A helper that keeps the refreshed token for the requests that follow.
FirstGetTokenRefreshed(f) == IF f.new_token # <<>> THEN f.new_token ELSE f.access_token

\* The bearer token of the first GET of an endpoint (line 153).
FirstGetToken(f) == f.access_token

\* A helper that refreshes whenever the bundle has the key, null or not.
ShouldRefreshIfKey(status, credentials) ==
  status = 401 /\ "refresh_token" \in DOMAIN credentials

\* A helper that refreshes on any failure of the first GET.
ShouldRefreshOnAnyError(status, credentials) ==
  status # 200 /\ Truthy(DictGet(credentials, "refresh_token"))

\* Line 157: refresh when the call was unauthorized and a refresh token is there.
ShouldRefresh(status, credentials) ==
  status = 401 /\ Truthy(DictGet(credentials, "refresh_token"))

\* Lines 151-157, 163-165: the first GET of the current endpoint answers `resp`.
FetchGet(resp) ==
  /\ fetch.pc = "get"
  /\ LET f == [fetch EXCEPT !.calls =
                 Append(@, Call("get", fetch.endpoint, FirstGetToken(fetch),
                                resp.status, resp.decodes, resp.body))]
     IN fetch' =
          IF ShouldRefresh(resp.status, f.credentials) THEN [f EXCEPT !.pc = "refresh"]
          ELSE IF resp.status # 200
               THEN FetchFail(f, resp.status, "Failed to fetch HubSpot data")
               ELSE AfterRequest(f, resp.body)
  /\ UNCHANGED <<oauthVars, refreshed>>

\* A helper that retries with the header it already had.
RetryTokenUnchanged(access_token, new_tokens) == access_token

\* Line 160: the bearer token of the retried GET.
RetryToken(access_token, new_tokens) == new_tokens["access_token"].s

\* Lines 119-136, 159-160: refresh_access_token; the token endpoint answers `resp`.
FetchRefresh(resp) ==
  /\ fetch.pc = "refresh"
  /\ LET f == [fetch EXCEPT !.calls =
                 Append(@, Call("refresh", fetch.endpoint,
                                fetch.credentials["refresh_token"].s,
                                resp.status, TRUE, resp.json))]
     IN fetch' =
          IF resp.status # 200 THEN FetchFail(f, 400, "Failed to refresh access token")
          ELSE IF "access_token" \notin DOMAIN resp.json THEN FetchFail(f, 500, "KeyError")
          ELSE [f EXCEPT !.pc = "retry",
                         !.new_token = RetryToken(f.access_token, resp.json)]
  /\ refreshed' = IF resp.status = 200 /\ "access_token" \in DOMAIN resp.json
                  THEN refreshed \cup {JsonDumps(fetch.credentials)}
                  ELSE refreshed
  /\ UNCHANGED oauthVars

\* Lines 161-162: the retried GET answers `resp`; its body is returned as it is.
FetchRetry(resp) ==
  /\ fetch.pc = "retry"
  /\ LET f == [fetch EXCEPT !.calls =
                 Append(@, Call("retry_get", fetch.endpoint, fetch.new_token,
                                resp.status, resp.decodes, resp.body))]
     IN fetch' =
          IF ~resp.decodes THEN FetchFail(f, 500, "ContentTypeError")
          ELSE AfterRequest(f, resp.body)
  /\ UNCHANGED <<oauthVars, refreshed>>

\* The caller has the items or the error; the next fetch may start.
FetchReturn ==
  /\ fetch.pc \in {"done", "failed"}
  /\ fetch' = IdleFetch
  /\ UNCHANGED <<oauthVars, refreshed>>

\* ---------------------------------------------------------------- specifications
Init == OAuthInit /\ fetch = IdleFetch /\ refreshed = {}

\* The state once authorize_hubspot(pair) and a callback for its state, answered
\* with token body b, have both completed at time 0.
AfterAuthorization(pair, b) ==
  LET state == MakeState(pair[1], pair[2])
      c == CHOOSE x \in Configs : ~ConfigMissing(x)
  IN /\ now = 0
     /\ config = c
     /\ redis = RedisSet(AuthorizeStore(EmptyStore, 0, state),
                         CredentialsKey(pair[1], pair[2]), JsonDumps(MakeCredentials(b)))
     /\ authResult = AuthorizeResult(c, pair[1], pair[2], 0)
     /\ cb = [i \in CallbackIds |-> IdleCallback]
     /\ exchanged = [s \in {state} |-> [token_data |-> b, stored_state |-> TRUE]]

\* The fetcher starts on a fresh store or on one that holds a bundle.
FetchInit ==
  /\ \/ OAuthInit
     \/ \E pair \in {p \in AuthPairs : SplitUnpacks(MakeState(p[1], p[2]))},
           b \in {t \in TokenBodies : "access_token" \in DOMAIN t} :
          AfterAuthorization(pair, b)
  /\ fetch = IdleFetch
  /\ refreshed = {}

FetchNext ==
  \/ \E b \in FetchBundles : FetchStart(JsonDumps(b))
  \/ \E resp \in DataResponses(fetch.endpoint) : FetchGet(resp)
  \/ \E resp \in TokenResponses : FetchRefresh(resp)
  \/ \E resp \in DataResponses(fetch.endpoint) : FetchRetry(resp)
  \/ FetchReturn

Next == OAuthNext \/ FetchNext

Spec == Init /\ [][Next]_vars

\* The authorization flow alone.
SpecOAuth == Init /\ [][OAuthNext]_vars

\* The record fetcher alone.
SpecFetch == FetchInit /\ [][FetchNext]_vars

\* Callbacks racing for one state, requests cancelled at their awaits.
ConcurrentPairs == {p \in AuthPairs : ~ \E j \in DOMAIN p[2] : p[2][j] = ":"}

ConcurrentState == MakeState(<<"u1">>, <<"o1">>)

ConcurrentTimes == {StateTtl - 1}

ConcurrentInit ==
  /\ now = 0
  /\ config \in {c \in Configs : ~ConfigMissing(c)}
  /\ redis = EmptyStore
  /\ authResult = NoAuthResult
  /\ cb = [i \in ConcurrentIds |-> IdleCallback]
  /\ exchanged = [k \in {} |-> [token_data |-> NoDict, stored_state |-> FALSE]]
  /\ fetch = IdleFetch
  /\ refreshed = {}

ConcurrentNext ==
  \/ \E p \in ConcurrentPairs : authorize_hubspot(p[1], p[2])
  \/ \E p \in ConcurrentPairs, applied \in BOOLEAN : AuthorizeCancel(p[1], p[2], applied)
  \/ \E i \in ConcurrentIds :
       CallbackStart(i, PyStr(<<"code1">>), PyStr(ConcurrentState), PyNone)
  \/ \E i \in ConcurrentIds : CallbackVerifyState(i)
  \/ \E i \in ConcurrentIds, resp \in TokenResponses : CallbackExchange(i, resp)
  \/ \E i \in ConcurrentIds : CallbackStore(i)
  \/ \E i \in ConcurrentIds : CallbackReturn(i)
  \/ \E i \in ConcurrentIds, applied \in BOOLEAN : CallbackCancel(i, applied)
  \/ \E i \in ConcurrentIds : CallbackDrop(i)
  \/ \E t \in ConcurrentTimes : Tick(t)

SpecConcurrent == ConcurrentInit /\ [][ConcurrentNext]_vars

\* ================================================================ properties
IsCredentialsKey(k) == Len(k) >= 2 /\ k[1] = "hubspot_credentials"

\* The callback has looked its marker up.
LookedUp(c) == c.calls # <<>> /\ c.calls[1] = "redis_get"

InvalidState(c) ==
  c.pc = "failed" /\ c.status = 400 /\ c.detail = "Invalid state parameter"

\* C1: a callback whose marker lookup finds no live marker (never written, or
\* expired) fails with the invalid-state error whatever its code, having made
\* no token call and no store write; and every credential bundle in the store
\* was written by a callback whose lookup had found the marker of its state.
C1_AcceptedOnlyWithMarker ==
  /\ \A i \in CallbackIds :
       LookedUp(cb[i]) /\ ~cb[i].stored_state =>
         InvalidState(cb[i]) /\ cb[i].calls = <<"redis_get">>
  /\ \A k \in DOMAIN redis :
       IsCredentialsKey(k) =>
         \E s \in DOMAIN exchanged :
           /\ k = <<"hubspot_credentials", ":">> \o s
           /\ exchanged[s].stored_state

\* A callback with a code and the state of an expired marker has been refused,
\* while the store holds a bundle.
C1_Witness ==
  \E i \in CallbackIds :
    /\ InvalidState(cb[i])
    /\ Truthy(cb[i].code)
    /\ authResult.status = 200
    /\ cb[i].state.s = MakeState(authResult.user_id, authResult.org_id)
    /\ now > authResult.at + StateTtl
    /\ \E k \in DOMAIN redis : IsCredentialsKey(k)

\* C7: a callback whose query carries an error (a non-empty error parameter)
\* fails with the authorization-denied error whatever its code and state and
\* whether or not a marker exists, before any store read, token call or store
\* write.
C7_ErrorNeverExchanges ==
  \A i \in CallbackIds :
    cb[i].pc # "idle" /\ Truthy(cb[i].error) =>
      /\ cb[i].pc = "failed"
      /\ cb[i].status = 400
      /\ cb[i].detail = "HubSpot authorization error"
      /\ cb[i].calls = <<>>

\* A denied callback that carried a code and a state whose marker is live.
C7_Witness ==
  \E i \in CallbackIds :
    /\ cb[i].pc = "failed"
    /\ Truthy(cb[i].error)
    /\ Truthy(cb[i].code)
    /\ Truthy(cb[i].state)
    /\ RedisGet(redis, now, StateKey(cb[i].state.s)).found

\* The pairs whose identifiers contain no colon.
HasColon(s) == \E j \in DOMAIN s : s[j] = ":"

ColonFreePairs == {p \in AuthPairs : ~HasColon(p[1]) /\ ~HasColon(p[2])}

\* C4: for every colon-free (user_id, org_id), once a callback carrying the
\* state user_id:org_id has stored, get_credentials(user_id, org_id) returns a
\* bundle with the access_token, refresh_token (null when the response had
\* none), expires_in and token_type of the token response of the last such
\* callback, at any later time.
C4_CredentialsRoundTrip ==
  \A p \in ColonFreePairs :
    LET s == MakeState(p[1], p[2])
        got == get_hubspot_credentials(redis, now, p[1], p[2])
    IN s \in DOMAIN exchanged =>
         LET token_data == exchanged[s].token_data
         IN /\ got.found
            /\ DOMAIN got.value = {"access_token", "refresh_token", "expires_in", "token_type"}
            /\ got.value["access_token"] = token_data["access_token"]
            /\ got.value["refresh_token"] =
                 (IF "refresh_token" \in DOMAIN token_data
                  THEN token_data["refresh_token"] ELSE PyNone)
            /\ got.value["expires_in"] = token_data["expires_in"]
            /\ got.value["token_type"] = token_data["token_type"]

\* Two pairs hold bundles, one with a refresh token and one without, and the
\* marker of the first has expired since.
C4_Witness ==
  \E p \in ColonFreePairs, q \in ColonFreePairs :
    /\ p # q
    /\ MakeState(p[1], p[2]) \in DOMAIN exchanged
    /\ MakeState(q[1], q[2]) \in DOMAIN exchanged
    /\ "refresh_token" \in DOMAIN exchanged[MakeState(p[1], p[2])].token_data
    /\ "refresh_token" \notin DOMAIN exchanged[MakeState(q[1], q[2])].token_data
    /\ ~RedisGet(redis, now, StateKey(MakeState(p[1], p[2]))).found
    /\ now > StateTtl

\* The text of s before its first colon, and the text after it.
RECURSIVE BeforeFirstColon(_)
BeforeFirstColon(s) ==
  IF s = <<>> \/ Head(s) = ":" THEN <<>> ELSE <<Head(s)>> \o BeforeFirstColon(Tail(s))

RECURSIVE AfterFirstColon(_)
AfterFirstColon(s) ==
  IF s = <<>> THEN <<>>
  ELSE IF Head(s) = ":" THEN Tail(s) ELSE AfterFirstColon(Tail(s))

\* C5: a callback whose state passed the marker check and whose token exchange
\* returned a complete token response goes on to store the bundle, with
\* user_id the text of the state before its first colon and org_id all the
\* text after it.
C5_SplitOnFirstColon ==
  \A i \in CallbackIds :
    /\ cb[i].stored_state
    /\ HasColon(cb[i].state.s)
    /\ {"access_token", "expires_in", "token_type"} \subseteq DOMAIN cb[i].token_data
    => /\ cb[i].pc \in {"store", "done"}
       /\ cb[i].user_id = BeforeFirstColon(cb[i].state.s)
       /\ cb[i].org_id = AfterFirstColon(cb[i].state.s)

\* C6, the state of the store: when the client id and secret are configured
\* begin_authorization answers a URL whose state parameter is
\* user_id + ":" + org_id, and the marker of that state is retrievable while
\* fewer than 3600 seconds have passed since the call and is not once more
\* than 3600 seconds have passed.
C6_MarkerLifetime ==
  /\ authResult.status # 0 /\ ~ConfigMissing(config) => authResult.status = 200
  /\ authResult.status = 200 =>
       LET state == MakeState(authResult.user_id, authResult.org_id)
           got == RedisGet(redis, now, StateKey(state))
       IN /\ QueryParam(authResult.query, "state") = state
          /\ now < authResult.at + 3600 => got.found /\ got.val = <<"1">>
          /\ now > authResult.at + 3600 => ~got.found

\* C6, the callback: a lookup for the state of the last begin_authorization
\* passes the state check within 3600 seconds of it and fails with the
\* invalid-state error after 3600 seconds.
C6_CallbackStep ==
  \A i \in CallbackIds :
    /\ cb[i].pc = "verify_state"
    /\ cb'[i].pc # "verify_state"
    /\ authResult.status = 200
    /\ cb[i].state.s = MakeState(authResult.user_id, authResult.org_id)
    => /\ now < authResult.at + 3600 => cb'[i].pc = "exchange_code"
       /\ now > authResult.at + 3600 => InvalidState(cb'[i])

\* C6: begin_authorization answers a URL whose state is user_id + ":" + org_id
\* and writes a marker that is retrievable for 3600 seconds and expired
\* thereafter: in every state the store agrees, and every callback lookup does.
C6_MarkerTtl == []C6_MarkerLifetime /\ [][C6_CallbackStep]_vars

\* More than 3600 seconds after the last begin_authorization a callback for
\* its state has been refused.
C6_Witness ==
  \E i \in CallbackIds :
    /\ authResult.status = 200
    /\ now > authResult.at + 3600
    /\ InvalidState(cb[i])
    /\ cb[i].state.s = MakeState(authResult.user_id, authResult.org_id)

\* ---------------------------------------------------------------- the marker after use
IsStateKey(k) == Len(k) >= 2 /\ k[1] = "hubspot_state"

\* C11: no step of a callback deletes or rewrites a marker, so that after a
\* successful callback the marker of its state is there with the expiry it
\* had; a later callback with the same state whose lookup finds the marker
\* alive passes the state check, and when it stores, get_credentials returns
\* its bundle in place of the earlier one.
C11_CallbackStep ==
  cb' # cb =>
    /\ \A k \in DOMAIN redis :
         IsStateKey(k) => k \in DOMAIN redis' /\ redis'[k] = redis[k]
    /\ \A i \in CallbackIds :
         /\ cb[i].pc = "verify_state" /\ cb'[i].pc # "verify_state"
            /\ cb[i].state.s \in DOMAIN exchanged
            /\ RedisGet(redis, now, StateKey(cb[i].state.s)).found
            => cb'[i].pc = "exchange_code"
         /\ cb[i].pc = "store" /\ cb'[i].pc = "done"
            => LET got == get_hubspot_credentials(redis', now, cb[i].user_id, cb[i].org_id)
               IN got.found /\ got.value = MakeCredentials(cb[i].token_data)

\* C11: the marker is not invalidated by use: every step of every callback
\* leaves the markers as they are, a replay within the marker's life succeeds
\* and overwrites the bundle.
C11_MarkerSurvivesUse == [][C11_CallbackStep]_vars

\* A second callback for a state has passed the state check while the marker
\* is alive, and is about to replace the bundle of the first with another.
C11_Witness ==
  \E i \in CallbackIds :
    /\ cb[i].pc = "store"
    /\ cb[i].state.s \in DOMAIN exchanged
    /\ exchanged[cb[i].state.s].token_data # cb[i].token_data
    /\ RedisGet(redis, now, StateKey(cb[i].state.s)).found
    /\ CredentialsKey(cb[i].user_id, cb[i].org_id) \in DOMAIN redis

\* ---------------------------------------------------------------- configuration
NotConfigured == ~Truthy(config.client_id) \/ ~Truthy(config.client_secret)

\* C13, the state: without the client id or the client secret no marker is
\* ever in the store and begin_authorization has answered nothing but the
\* configuration error, with no URL.
C13_NoMarkerNoUrl ==
  NotConfigured =>
    /\ \A k \in DOMAIN redis : ~IsStateKey(k)
    /\ authResult.status \in {0, 500}
    /\ authResult.base = "" /\ authResult.query = <<>>

\* C13, the call: begin_authorization without the client id or the client
\* secret answers the configuration error and leaves the store as it was.
C13_AuthorizeStep ==
  NotConfigured /\ authResult' # authResult =>
    /\ authResult'.status = 500
    /\ authResult'.detail = "HubSpot client configuration is missing"
    /\ redis' = redis

\* C13: begin_authorization when the client id or the client secret is not
\* configured fails with the configuration error, writes no marker, leaves the
\* store unchanged and returns no URL.
C13_ConfigurationError == []C13_NoMarkerNoUrl /\ [][C13_AuthorizeStep]_vars

\* The client id is configured, the secret is not, and begin_authorization
\* has been refused.
C13_Witness ==
  /\ Truthy(config.client_id) /\ ~Truthy(config.client_secret)
  /\ authResult.status = 500
  /\ authResult.user_id # <<>>

\* ---------------------------------------------------------------- a failed exchange
\* C14, the state: a callback whose token exchange answered a status other
\* than 200 has failed with the token-exchange error, after the lookup and
\* the token call and with no store write.
C14_FailedExchange ==
  \A i \in CallbackIds :
    cb[i].response_status \notin {0, 200} =>
      /\ cb[i].pc = "failed"
      /\ cb[i].status = 400
      /\ cb[i].detail = "Failed to get access token"
      /\ cb[i].calls = <<"redis_get", "token_post">>

\* C14, the step: the step that receives the non-200 answer leaves the store
\* as it was, so get_credentials returns for every pair what it returned
\* before, a bundle or none.
C14_ExchangeStep ==
  \A i \in CallbackIds :
    cb[i].pc = "exchange_code" /\ cb'[i].response_status \notin {0, 200} =>
      /\ redis' = redis
      /\ \A p \in AuthPairs :
           get_hubspot_credentials(redis', now', p[1], p[2])
             = get_hubspot_credentials(redis, now, p[1], p[2])

\* C14: a callback whose token exchange returns a non-200 status fails with
\* the token-exchange error and leaves the store unchanged: a bundle stored
\* before is still what get_credentials returns, and none is created.
C14_TokenExchangeError == []C14_FailedExchange /\ [][C14_ExchangeStep]_vars

\* A callback has failed at the token exchange while the pair of its state
\* holds a bundle from an earlier callback.
C14_Witness ==
  \E i \in CallbackIds, p \in ColonFreePairs :
    /\ cb[i].pc = "failed"
    /\ cb[i].response_status = 400
    /\ cb[i].state.s = MakeState(p[1], p[2])
    /\ get_hubspot_credentials(redis, now, p[1], p[2]).found

\* ---------------------------------------------------------------- the fetcher
Endpoints == {ContactsEndpoint, CompaniesEndpoint}

HasRefreshToken(f) == Truthy(DictGet(f.credentials, "refresh_token"))

\* The positions in the call log of the calls `op` made for endpoint e.
CallsOf(f, op, e) ==
  {j \in DOMAIN f.calls : f.calls[j].op = op /\ f.calls[j].endpoint = e}

\* The first GET of endpoint e was answered 401.
Unauthorized(f, e) == \E j \in CallsOf(f, "get", e) : f.calls[j].status = 401

\* make_request(e) is over: it returned or raised.
RequestOver(f, e) ==
  \/ f.pc \in {"done", "failed"} /\ CallsOf(f, "get", e) # {}
  \/ e = ContactsEndpoint /\ f.endpoint = CompaniesEndpoint

\* The response get_items_hubspot iterates over for endpoint e.
ResponseOf(f, e) ==
  IF e = ContactsEndpoint THEN f.contacts_response ELSE f.companies_response

\* C2 as stated: whenever the first GET of an endpoint got 401 and the bundle
\* has a refresh token, the request made exactly one refresh call and exactly
\* one retried GET, with the refreshed token, and its result is that GET's body.
C2_OneRefreshOneRetry ==
  \A e \in Endpoints :
    HasRefreshToken(fetch) /\ Unauthorized(fetch, e) /\ RequestOver(fetch, e) =>
      /\ Cardinality(CallsOf(fetch, "refresh", e)) = 1
      /\ Cardinality(CallsOf(fetch, "retry_get", e)) = 1
      /\ \A r \in CallsOf(fetch, "refresh", e), g \in CallsOf(fetch, "retry_get", e) :
           /\ "access_token" \in DOMAIN fetch.calls[r].body
           /\ fetch.calls[g].token = fetch.calls[r].body["access_token"].s
           /\ ResponseOf(fetch, e) = fetch.calls[g].body

\* C2 as amended: a 401 on the first GET of an endpoint, with a refresh token
\* in the bundle, is followed by one refresh call with that token; a refresh
\* answered 200 with an access token is followed by one retried GET with the
\* new token, whose decoded body is the endpoint's result whatever its status
\* (a body that is not JSON fails the fetch); a refresh that fails ends the
\* fetch with an error and no retried GET. One fetch makes at most one refresh
\* and one retried GET per endpoint, two refreshes and four GETs in all.
C2_RefreshThenRetry ==
  /\ \A e \in Endpoints :
       /\ Cardinality(CallsOf(fetch, "get", e)) <= 1
       /\ Cardinality(CallsOf(fetch, "refresh", e)) <= 1
       /\ Cardinality(CallsOf(fetch, "retry_get", e)) <= 1
  /\ Cardinality({j \in DOMAIN fetch.calls : fetch.calls[j].op = "refresh"}) <= 2
  /\ Cardinality({j \in DOMAIN fetch.calls :
                    fetch.calls[j].op \in {"get", "retry_get"}}) <= 4
  /\ \A j \in DOMAIN fetch.calls :
       LET c == fetch.calls[j]
           n == Len(fetch.calls)
       IN /\ c.op = "get" /\ c.status = 401 /\ HasRefreshToken(fetch) =>
               IF j = n THEN fetch.pc = "refresh"
               ELSE /\ fetch.calls[j + 1].op = "refresh"
                    /\ fetch.calls[j + 1].endpoint = c.endpoint
                    /\ fetch.calls[j + 1].token = fetch.credentials["refresh_token"].s
          /\ c.op = "refresh" =>
               IF c.status = 200 /\ "access_token" \in DOMAIN c.body
               THEN IF j = n THEN fetch.pc = "retry"
                    ELSE /\ fetch.calls[j + 1].op = "retry_get"
                         /\ fetch.calls[j + 1].endpoint = c.endpoint
                         /\ fetch.calls[j + 1].token = c.body["access_token"].s
               ELSE j = n /\ fetch.pc = "failed" /\ fetch.status \in {400, 500}
          /\ c.op = "retry_get" =>
               IF c.decodes
               THEN /\ fetch.pc # "failed" \/ j < n
                    /\ ResponseOf(fetch, c.endpoint) = c.body
               ELSE j = n /\ fetch.pc = "failed"

\* Both endpoints got 401, were refreshed and retried, and the fetch returned.
C2_Witness ==
  /\ fetch.pc = "done"
  /\ \A e \in Endpoints :
       /\ Unauthorized(fetch, e)
       /\ Cardinality(CallsOf(fetch, "refresh", e)) = 1
       /\ Cardinality(CallsOf(fetch, "retry_get", e)) = 1
  /\ Len(fetch.items) > 0

\* The fetch uses the result of call j: every call but a first GET whose 401
\* was answered by a refresh.
ResultUsed(f, j) ==
  ~(/\ f.calls[j].op = "get"
    /\ f.calls[j].status = 401
    /\ j < Len(f.calls)
    /\ f.calls[j + 1].op = "refresh")

\* C3: a fetch that returns a list of items used the result of no upstream
\* call (first GET, refresh, retried GET) that ended with a non-success status.
C3_NoFailureSwallowed ==
  fetch.pc = "done" =>
    \A j \in DOMAIN fetch.calls : ResultUsed(fetch, j) => fetch.calls[j].status = 200

\* C8: with no refresh token in the bundle (key absent, or null) a 401 on the
\* GET of either endpoint ends the fetch with a data-fetch error of status 401:
\* the 401 is the last call, no refresh and no retried GET were made, and no
\* items are returned.
C8_NoRefreshToken401 ==
  \A j \in DOMAIN fetch.calls :
    fetch.calls[j].op = "get" /\ fetch.calls[j].status = 401 /\ ~HasRefreshToken(fetch) =>
      /\ j = Len(fetch.calls)
      /\ fetch.pc = "failed"
      /\ fetch.status = 401
      /\ fetch.detail = "Failed to fetch HubSpot data"
      /\ \A k \in DOMAIN fetch.calls : fetch.calls[k].op = "get"

\* The companies GET got 401 after contacts had been fetched, the bundle's
\* refresh token being null.
C8_Witness ==
  /\ fetch.pc = "failed"
  /\ "refresh_token" \in DOMAIN fetch.credentials
  /\ fetch.credentials["refresh_token"] = PyNone
  /\ Len(fetch.calls) = 2
  /\ fetch.calls[2].status = 401
  /\ Len(fetch.items) > 0

\* The results of the last GET (first or retried) made for endpoint e.
UpstreamResults(f, e) ==
  LET js == CallsOf(f, "get", e) \cup CallsOf(f, "retry_get", e)
      last == CHOOSE j \in js : \A k \in js : k <= j
  IN ResultsOf(f.calls[last].body)

\* C9: the returned sequence is one item per contact record, in upstream
\* order, followed by one item per company record, in upstream order.
C9_ContactsThenCompanies ==
  fetch.pc = "done" =>
    LET cs == UpstreamResults(fetch, ContactsEndpoint)
        ks == UpstreamResults(fetch, CompaniesEndpoint)
    IN /\ Len(fetch.items) = Len(cs) + Len(ks)
       /\ \A j \in 1 .. Len(cs) :
            fetch.items[j].type = "contact" /\ fetch.items[j].id = cs[j].id
       /\ \A j \in 1 .. Len(ks) :
            /\ fetch.items[Len(cs) + j].type = "company"
            /\ fetch.items[Len(cs) + j].id = ks[j].id

\* Two different contacts and two different companies were returned.
C9_Witness ==
  /\ fetch.pc = "done"
  /\ Len(fetch.items) = 4
  /\ fetch.items[1].id # fetch.items[2].id
  /\ fetch.items[2].type = "contact"
  /\ fetch.items[3].id # fetch.items[4].id

\* C10, steps: no step of a fetch writes to the store.
C10_FetchStep == fetch' # fetch => redis' = redis

\* C10, states: every first GET carries the access token of the bundle the
\* fetch was given, also when a fetch has refreshed that bundle before; and
\* such a GET answered 401 is again followed by a refresh.
C10_SameTokenAgain ==
  \A j \in DOMAIN fetch.calls :
    LET c == fetch.calls[j]
    IN c.op = "get" =>
         /\ c.token = fetch.credentials["access_token"].s
         /\ c.status = 401 /\ HasRefreshToken(fetch)
              /\ JsonDumps(fetch.credentials) \in refreshed =>
              IF j = Len(fetch.calls) THEN fetch.pc = "refresh"
              ELSE fetch.calls[j + 1].op = "refresh"

\* C10: refreshed tokens are never persisted: no fetch step writes the store,
\* and a later fetch given the same bundle sends the same access token and,
\* rejected again, refreshes again.
C10_RefreshNotPersisted == []C10_SameTokenAgain /\ [][C10_FetchStep]_vars

\* A fetch given the stored bundle, which an earlier fetch had refreshed, got
\* 401 on its first GET and is about to refresh again; the store still holds
\* that bundle.
C10_Witness ==
  /\ fetch.pc = "refresh"
  /\ Len(fetch.calls) = 1
  /\ JsonDumps(fetch.credentials) \in refreshed
  /\ \E p \in ColonFreePairs :
       LET got == get_hubspot_credentials(redis, now, p[1], p[2])
       IN got.found /\ got.value = fetch.credentials

\* ---------------------------------------------------------------- company names
\* C15: every company item of a returned list has a name that is a string:
\* the record's name property when the record has a name, and the literal
\* "Unnamed Company" when the property is missing or null.
C15_CompanyName ==
  fetch.pc = "done" =>
    LET ks == UpstreamResults(fetch, CompaniesEndpoint)
        n == Len(fetch.items) - Len(ks)
    IN \A j \in 1 .. Len(ks) :
         LET props == ks[j].properties
             name == fetch.items[n + j].name
         IN /\ name.t = "str"
            /\ name = IF "name" \in DOMAIN props /\ props["name"] # PyNone
                      THEN props["name"] ELSE PyStr(<<"Unnamed Company">>)

\* ---------------------------------------------------------------- other upstream errors
\* C16: a first GET of an endpoint answered with a status that is neither 200
\* nor 401 ends the fetch with the data-fetch error carrying that status: it is
\* the last call, and the endpoint saw no refresh call and no retried GET,
\* whether the bundle has a refresh token or not.
C16_UpstreamStatusSurfaced ==
  \A j \in DOMAIN fetch.calls :
    LET c == fetch.calls[j]
    IN c.op = "get" /\ c.status \notin {200, 401} =>
         /\ j = Len(fetch.calls)
         /\ fetch.pc = "failed"
         /\ fetch.status = c.status
         /\ fetch.detail = "Failed to fetch HubSpot data"
         /\ CallsOf(fetch, "refresh", c.endpoint) = {}
         /\ CallsOf(fetch, "retry_get", c.endpoint) = {}

\* The bundle has a refresh token, the contacts were fetched after a refresh,
\* and the companies GET was answered 500.
C16_Witness ==
  /\ fetch.pc = "failed"
  /\ HasRefreshToken(fetch)
  /\ fetch.status = 500
  /\ fetch.calls[Len(fetch.calls)].op = "get"
  /\ fetch.calls[Len(fetch.calls)].endpoint = CompaniesEndpoint
  /\ CallsOf(fetch, "refresh", ContactsEndpoint) # {}

\* ---------------------------------------------------------------- one collection after the other
\* The fetch of endpoint e failed upstream: one of its calls was answered with
\* a status other than 200, and it was not a 401 that a refresh follows.
UpstreamFailed(f, e) ==
  \E j \in DOMAIN f.calls :
    /\ f.calls[j].endpoint = e
    /\ f.calls[j].status # 200
    /\ ~(f.calls[j].op = "get" /\ f.calls[j].status = 401 /\ HasRefreshToken(f))

\* Every call for companies comes after every call for contacts.
ContactsCallsFirst(f) ==
  \A j \in DOMAIN f.calls, k \in DOMAIN f.calls :
    j < k /\ f.calls[j].endpoint = CompaniesEndpoint =>
      f.calls[k].endpoint = CompaniesEndpoint

\* C17: every call for the companies endpoint comes after the calls for the
\* contacts endpoint; a fetch whose contacts fetch failed has raised and issued
\* no companies GET, and a fetch whose companies fetch failed has raised, so
\* that it returns no items at all.
C17_AllOrNothing ==
  /\ ContactsCallsFirst(fetch)
  /\ UpstreamFailed(fetch, ContactsEndpoint) =>
       fetch.pc = "failed" /\ CallsOf(fetch, "get", CompaniesEndpoint) = {}
  /\ UpstreamFailed(fetch, CompaniesEndpoint) => fetch.pc = "failed"

\* ---------------------------------------------------------------- racing callbacks
\* The complete bundle of token response b, field by field.
BundleOf(b) ==
  [access_token |-> b["access_token"],
   refresh_token |-> IF "refresh_token" \in DOMAIN b THEN b["refresh_token"] ELSE PyNone,
   expires_in |-> b["expires_in"],
   token_type |-> b["token_type"]]

\* C12, the state: every credential key in the store holds the complete bundle
\* of one token response, that of the callback for its state that wrote last.
C12_SingleResponse ==
  \A k \in DOMAIN redis :
    IsCredentialsKey(k) =>
      /\ \E b \in TokenBodies : JsonLoads(redis[k].val) = BundleOf(b)
      /\ \A s \in DOMAIN exchanged :
           k = <<"hubspot_credentials", ":">> \o s =>
             JsonLoads(redis[k].val) = BundleOf(exchanged[s].token_data)

\* C12, the step: a credential key changes only by the write of one callback,
\* and after the write of a callback the key holds that callback's bundle and
\* nothing of what another callback had written.
C12_WriteStep ==
  /\ \A k \in DOMAIN redis' :
       IsCredentialsKey(k) /\ (k \notin DOMAIN redis \/ redis'[k] # redis[k]) =>
         \E i \in DOMAIN cb :
           /\ cb[i].pc = "store" /\ cb'[i].pc \in {"done", "cancelled"}
           /\ k = CredentialsKey(cb[i].user_id, cb[i].org_id)
           /\ JsonLoads(redis'[k].val) = BundleOf(cb[i].token_data)
  /\ \A i \in DOMAIN cb :
       cb[i].pc = "store" /\ cb'[i].pc = "done" =>
         LET k == CredentialsKey(cb[i].user_id, cb[i].org_id)
         IN k \in DOMAIN redis' /\ JsonLoads(redis'[k].val) = BundleOf(cb[i].token_data)

\* C12: concurrent callbacks for the same state are last-write-wins: under
\* every interleaving the credential key is absent or holds the complete
\* bundle of a single token response, that of the callback that wrote last.
C12_LastWriteWins == []C12_SingleResponse /\ [][C12_WriteStep]_vars

\* Two callbacks for the same state are in flight together, both have written,
\* one a bundle with a refresh token and the other a bundle without.
C12_Witness ==
  \E i \in DOMAIN cb, j \in DOMAIN cb :
    /\ i # j
    /\ cb[i].pc = "done" /\ cb[j].pc = "done"
    /\ cb[i].state = cb[j].state
    /\ "refresh_token" \in DOMAIN cb[i].token_data
    /\ "refresh_token" \notin DOMAIN cb[j].token_data
    /\ JsonLoads(redis[CredentialsKey(cb[j].user_id, cb[j].org_id)].val)
         = BundleOf(cb[j].token_data)

\* ---------------------------------------------------------------- cancelled requests
\* The keys whose entry differs between two stores.
ChangedKeys(before, after) ==
  {k \in DOMAIN before \cup DOMAIN after :
     k \notin DOMAIN before \/ k \notin DOMAIN after \/ after[k] # before[k]}

\* C18, the state: a callback has written at most once, as the last thing it
\* did; every marker in the store is whole and every credential entry is the
\* whole bundle of a token response.
C18_WholeEntries ==
  /\ \A i \in DOMAIN cb :
       \A j \in DOMAIN cb[i].calls :
         cb[i].calls[j] = "redis_set" => j = Len(cb[i].calls)
  /\ \A k \in DOMAIN redis :
       /\ IsStateKey(k) => redis[k].val = <<"1">> /\ redis[k].exp # NoExpiry
       /\ IsCredentialsKey(k) =>
            \E b \in TokenBodies :
              redis[k] = [val |-> JsonDumps(BundleOf(b)), exp |-> NoExpiry]

\* C18, the step: a step of an operation, completed or abandoned, changes at
\* most one key and leaves it at its complete new value; a callback writes
\* nothing before its last await, so one abandoned before it leaves the store
\* as it was; an abandoned begin_authorization touches its marker only.
C18_OperationStep ==
  now' = now =>
    LET changed == ChangedKeys(redis, redis')
    IN /\ Cardinality(changed) <= 1
       /\ \A k \in changed :
            /\ k \in DOMAIN redis'
            /\ IsStateKey(k) => redis'[k] = [val |-> <<"1">>, exp |-> now + StateTtl]
            /\ IsCredentialsKey(k) =>
                 \E b \in TokenBodies :
                   redis'[k] = [val |-> JsonDumps(BundleOf(b)), exp |-> NoExpiry]
       /\ \A i \in DOMAIN cb :
            cb[i].pc \in {"idle", "verify_state", "exchange_code"} /\ cb'[i] # cb[i] =>
              redis' = redis
       /\ \A i \in DOMAIN cb :
            cb[i].pc = "store" /\ cb'[i].pc = "cancelled" =>
              changed \subseteq {CredentialsKey(cb[i].user_id, cb[i].org_id)}
       /\ authResult' # authResult /\ authResult'.detail = "cancelled" =>
            changed \subseteq
              {StateKey(MakeState(authResult'.user_id, authResult'.org_id))}

\* C18: cancellation never corrupts the store: every operation writes at most
\* once, so whatever await a begin_authorization or a callback is abandoned
\* at, each key has its value of before or the complete new one, and a
\* callback abandoned before its write leaves the store unchanged.
C18_CancellationSafe == []C18_WholeEntries /\ [][C18_OperationStep]_vars

\* A callback was abandoned at the await of its write, the write not done: the
\* store still holds the bundle of an earlier callback, another than the one
\* it was about to write; a begin_authorization was abandoned too.
C18_Witness ==
  \E i \in DOMAIN cb :
    /\ cb[i].pc = "cancelled"
    /\ cb[i].calls = <<"redis_get", "token_post">>
    /\ cb[i].credentials # NoDict
    /\ CredentialsKey(cb[i].user_id, cb[i].org_id) \in DOMAIN redis
    /\ JsonLoads(redis[CredentialsKey(cb[i].user_id, cb[i].org_id)].val)
         # cb[i].credentials
    /\ authResult.detail = "cancelled"

====
